---- MODULE Spec2Model ----
(***************************************************************************)
(* HashMap of src/hashtable.cpp: open addressing, linear probing, lazy     *)
(* deletion, rehashing by doubling and halving.  The file holds the class  *)
(* twice: the value-array variant (lines 11-433) and the pointer-array     *)
(* variant (lines 445-857).  They differ in the probe loop of insert (the  *)
(* value-array variant leaves the loop at the first deleted slot) and in   *)
(* the representation of an empty slot (is_nullptr[i] against              *)
(* arr[i] == nullptr); the model keeps one slot layout, is_nullptr[i]      *)
(* standing for arr[i] == nullptr in the pointer-array variant.            *)
(***************************************************************************)
EXTENDS Integers, Sequences, FiniteSets, TLC

VARIABLES variant, h, pre, last, calls, limit, first, shadowed, fifo

vars == <<variant, h, pre, last, calls, limit, first, shadowed, fifo>>

(***************************************************************************)
(* Bounds of the model.                                                    *)
(***************************************************************************)
NumKeys == 3
NumRangeKeys == 7
NumQueueKeys == 15
MaxCalls == 7
MaxDeepCalls == 8

(***************************************************************************)
(* Program constants.                                                      *)
(***************************************************************************)
default_size == 8
decreasing_size == 2
increasing_size == 2
allowed_deleted_elements == 2

\* overload_size * buffer_size rounded up instead of truncated
overload_limit_rounding_up(buffer_size) == (3 * buffer_size + 3) \div 4

\* size_t(overload_size * buffer_size) with overload_size = 0.75
overload_limit(buffer_size) == (3 * buffer_size) \div 4

Variants == {"value_array", "pointer_array"}

\* The class is instantiated as HashMap<int, bool>.  The i-th key of the
\* population is 7, 15, 0, 1, 2, ...: keys 7 and 15 collide in every table of
\* size 8 or less, in its last slot, so that the probe path of the second
\* wraps round to slot 0, and they are apart in a table of size 16; the
\* others are neighbours, so that a displaced key displaces the next.
KeyOf(i) ==
    IF i = 0 THEN default_size - 1
    ELSE IF i = 1 THEN 2 * default_size - 1
    ELSE i - 2
Keys == {KeyOf(i) : i \in 0..(NumKeys - 1)}
RangeKeys == {KeyOf(i) : i \in 0..(NumRangeKeys - 1)}
\* the keys of a caller that numbers its entries: 0, 1, 2, ...
QueueKeys == 0..(NumQueueKeys - 1)
Values == BOOLEAN

\* KeyType() and ValueType(): value-initialised
DefaultKey == 0
DefaultValue == FALSE

\* Hash = std::hash<KeyType>, the identity on integers
hasher(key) == key

(***************************************************************************)
(* The container: the private fields of HashMap.                           *)
(***************************************************************************)
init ==
    [buffer_size |-> default_size,
     sz |-> 0,
     size_all_non_nullptr |-> 0,
     arr |-> [i \in 0..(default_size - 1) |-> <<DefaultKey, DefaultValue>>],
     used |-> [i \in 0..(default_size - 1) |-> FALSE],
     is_nullptr |-> [i \in 0..(default_size - 1) |-> TRUE]]

\* the probe loop shared by erase, operator[], at and find
RECURSIVE probe(_, _, _, _)
probe(c, key, hash, i) ==
    IF ~c.is_nullptr[hash] /\ i < c.buffer_size
    THEN IF c.arr[hash][1] = key /\ ~c.used[hash]
         THEN hash
         ELSE probe(c, key, (hash + 1) % c.buffer_size, i + 1)
    ELSE -1

\* the probe loop without the test of used[hash]
RECURSIVE probe_ignoring_used(_, _, _, _)
probe_ignoring_used(c, key, hash, i) ==
    IF ~c.is_nullptr[hash] /\ i < c.buffer_size
    THEN IF c.arr[hash][1] = key
         THEN hash
         ELSE probe_ignoring_used(c, key, (hash + 1) % c.buffer_size, i + 1)
    ELSE -1

\* the number of times the body of that loop runs, with i <= buffer_size as
\* the loop's bound
RECURSIVE probe_steps_past_end(_, _, _, _)
probe_steps_past_end(c, key, hash, i) ==
    IF ~c.is_nullptr[hash] /\ i <= c.buffer_size
    THEN IF c.arr[hash][1] = key /\ ~c.used[hash]
         THEN i + 1
         ELSE probe_steps_past_end(c, key, (hash + 1) % c.buffer_size, i + 1)
    ELSE i

\* the number of times the body of the probe loop of erase, operator[], at
\* and find runs
RECURSIVE probe_steps(_, _, _, _)
probe_steps(c, key, hash, i) ==
    IF ~c.is_nullptr[hash] /\ i < c.buffer_size
    THEN IF c.arr[hash][1] = key /\ ~c.used[hash]
         THEN i + 1
         ELSE probe_steps(c, key, (hash + 1) % c.buffer_size, i + 1)
    ELSE i

\* the probe loop of insert: exists = the early return; otherwise the slot the
\* loop stopped at (hash), and the first deleted slot seen (found, first_deleted)
RECURSIVE insert_probe(_, _, _, _, _, _)
insert_probe(c, key, hash, i, found, first_deleted) ==
    IF ~c.is_nullptr[hash] /\ i < c.buffer_size
    THEN IF c.arr[hash][1] = key /\ ~c.used[hash]
         THEN [exists |-> TRUE, hash |-> hash, found |-> found,
               first_deleted |-> first_deleted]
         ELSE IF c.used[hash] /\ ~found
              THEN IF variant = "value_array"
                   THEN [exists |-> FALSE, hash |-> hash, found |-> TRUE,
                         first_deleted |-> hash]
                   ELSE insert_probe(c, key, (hash + 1) % c.buffer_size, i + 1,
                                     TRUE, hash)
              ELSE insert_probe(c, key, (hash + 1) % c.buffer_size, i + 1,
                                found, first_deleted)
    ELSE [exists |-> FALSE, hash |-> hash, found |-> found,
          first_deleted |-> first_deleted]

\* the number of times the body of the probe loop of insert runs
RECURSIVE insert_probe_steps(_, _, _, _, _)
insert_probe_steps(c, key, hash, i, found) ==
    IF ~c.is_nullptr[hash] /\ i < c.buffer_size
    THEN IF c.arr[hash][1] = key /\ ~c.used[hash]
         THEN i + 1
         ELSE IF c.used[hash] /\ ~found
              THEN IF variant = "value_array"
                   THEN i + 1
                   ELSE insert_probe_steps(c, key, (hash + 1) % c.buffer_size,
                                           i + 1, TRUE)
              ELSE insert_probe_steps(c, key, (hash + 1) % c.buffer_size,
                                      i + 1, found)
    ELSE i

RECURSIVE insert(_, _)

\* the re-insertion loop of increase_size / decrease_size.  A pass is over
\* before the next begins: the test of c2.sz (a size_t, never negative) has
\* the table that insert leaves evaluated before the loop goes on.
RECURSIVE reinsert(_, _, _)
reinsert(c, prev, i) ==
    IF i < prev.buffer_size
    THEN IF ~prev.is_nullptr[i] /\ ~prev.used[i]
         THEN LET c2 == insert(c, prev.arr[i])
              IN IF c2.sz >= 0 THEN reinsert(c2, prev, i + 1) ELSE c2
         ELSE reinsert(c, prev, i + 1)
    ELSE c

\* the table of the given size that increase_size / decrease_size start from
rebuilt(buffer_size) ==
    [buffer_size |-> buffer_size,
     sz |-> 0,
     size_all_non_nullptr |-> 0,
     arr |-> [i \in 0..(buffer_size - 1) |-> <<DefaultKey, DefaultValue>>],
     used |-> [i \in 0..(buffer_size - 1) |-> FALSE],
     is_nullptr |-> [i \in 0..(buffer_size - 1) |-> TRUE]]

increase_size(c) == reinsert(rebuilt(c.buffer_size * increasing_size), c, 0)

\* decrease_size with buffer_size -= decreasing_size
decrease_size_subtracting(c) ==
    reinsert(rebuilt(c.buffer_size - decreasing_size), c, 0)

decrease_size(c) == reinsert(rebuilt(c.buffer_size \div decreasing_size), c, 0)

\* check_density that lets the table fill: grows when sz + 1 > buffer_size
check_density_full(c) ==
    IF c.sz + 1 > c.buffer_size THEN increase_size(c) ELSE c

check_density(c) ==
    IF c.sz + 1 > overload_limit(c.buffer_size) THEN increase_size(c) ELSE c

\* check_deleted_elements that allows one more deleted slot per live pair
check_deleted_elements_lax(c) ==
    IF c.size_all_non_nullptr > (allowed_deleted_elements + 1) * c.sz
    THEN decrease_size(c)
    ELSE c

check_deleted_elements(c) ==
    IF c.size_all_non_nullptr > allowed_deleted_elements * c.sz
    THEN decrease_size(c)
    ELSE c

\* insert that overwrites the value of a key it finds
insert_overwriting(c, item) ==
    LET c2 == check_deleted_elements(check_density(c))
        p == insert_probe(c2, item[1], hasher(item[1]) % c2.buffer_size, 0,
                          FALSE, 0)
    IN IF p.exists
       THEN [c2 EXCEPT !.arr[p.hash] = item]
       ELSE IF ~p.found
            THEN [c2 EXCEPT !.is_nullptr[p.hash] = FALSE,
                            !.arr[p.hash] = item,
                            !.size_all_non_nullptr = @ + 1,
                            !.sz = @ + 1]
            ELSE [c2 EXCEPT !.is_nullptr[p.first_deleted] = FALSE,
                            !.arr[p.first_deleted] = item,
                            !.used[p.first_deleted] = FALSE,
                            !.sz = @ + 1]

\* insert that always stores the pair in the slot its probe loop stopped at
insert_past_deleted(c, item) ==
    LET c2 == check_deleted_elements(check_density(c))
        p == insert_probe(c2, item[1], hasher(item[1]) % c2.buffer_size, 0,
                          FALSE, 0)
    IN IF p.exists
       THEN c2
       ELSE [c2 EXCEPT !.is_nullptr[p.hash] = FALSE,
                       !.arr[p.hash] = item,
                       !.used[p.hash] = FALSE,
                       !.size_all_non_nullptr = @ + 1,
                       !.sz = @ + 1]

\* insert that counts a slot it takes over from a deleted pair as new
insert_counting_reuse(c, item) ==
    LET c2 == check_deleted_elements(check_density(c))
        p == insert_probe(c2, item[1], hasher(item[1]) % c2.buffer_size, 0,
                          FALSE, 0)
    IN IF p.exists
       THEN c2
       ELSE IF ~p.found
            THEN [c2 EXCEPT !.is_nullptr[p.hash] = FALSE,
                            !.arr[p.hash] = item,
                            !.size_all_non_nullptr = @ + 1,
                            !.sz = @ + 1]
            ELSE [c2 EXCEPT !.is_nullptr[p.first_deleted] = FALSE,
                            !.arr[p.first_deleted] = item,
                            !.used[p.first_deleted] = FALSE,
                            !.size_all_non_nullptr = @ + 1,
                            !.sz = @ + 1]

insert(c, item) ==
    LET c2 == check_deleted_elements(check_density(c))
        p == insert_probe(c2, item[1], hasher(item[1]) % c2.buffer_size, 0,
                          FALSE, 0)
    IN IF p.exists
       THEN c2
       ELSE IF ~p.found
            THEN [c2 EXCEPT !.is_nullptr[p.hash] = FALSE,
                            !.arr[p.hash] = item,
                            !.size_all_non_nullptr = @ + 1,
                            !.sz = @ + 1]
            ELSE [c2 EXCEPT !.is_nullptr[p.first_deleted] = FALSE,
                            !.arr[p.first_deleted] = item,
                            !.used[p.first_deleted] = FALSE,
                            !.sz = @ + 1]

\* erase without its check_deleted_elements() call
erase_unchecked(c, key) ==
    LET hash == probe(c, key, hasher(key) % c.buffer_size, 0)
    IN IF hash # -1
       THEN [c EXCEPT !.used[hash] = TRUE, !.sz = @ - 1]
       ELSE c

\* erase that marks the slot empty instead of deleted
erase_emptying(c, key) ==
    LET hash == probe(c, key, hasher(key) % c.buffer_size, 0)
    IN IF hash # -1
       THEN check_deleted_elements(
                [c EXCEPT !.is_nullptr[hash] = TRUE, !.sz = @ - 1])
       ELSE c

\* erase that does not test used[hash]
erase_ignoring_used(c, key) ==
    LET hash == probe_ignoring_used(c, key, hasher(key) % c.buffer_size, 0)
    IN IF hash # -1
       THEN check_deleted_elements([c EXCEPT !.used[hash] = TRUE, !.sz = @ - 1])
       ELSE c

erase(c, key) ==
    LET hash == probe(c, key, hasher(key) % c.buffer_size, 0)
    IN IF hash # -1
       THEN check_deleted_elements([c EXCEPT !.used[hash] = TRUE, !.sz = @ - 1])
       ELSE c

(***************************************************************************)
(* The number of table rebuilds (calls of increase_size and decrease_size) *)
(* that a call makes, the rebuilds made by the insert calls of a rebuild   *)
(* included.                                                               *)
(***************************************************************************)
RECURSIVE insert_rebuilds(_, _)

RECURSIVE reinsert_rebuilds(_, _, _)
reinsert_rebuilds(c, prev, i) ==
    IF i < prev.buffer_size
    THEN IF ~prev.is_nullptr[i] /\ ~prev.used[i]
         THEN LET c2 == insert(c, prev.arr[i])
              IN IF c2.sz >= 0
                 THEN insert_rebuilds(c, prev.arr[i])
                          + reinsert_rebuilds(c2, prev, i + 1)
                 ELSE 0
         ELSE reinsert_rebuilds(c, prev, i + 1)
    ELSE 0

increase_size_rebuilds(c) ==
    1 + reinsert_rebuilds(rebuilt(c.buffer_size * increasing_size), c, 0)

decrease_size_rebuilds(c) ==
    1 + reinsert_rebuilds(rebuilt(c.buffer_size \div decreasing_size), c, 0)

check_density_rebuilds(c) ==
    IF c.sz + 1 > overload_limit(c.buffer_size)
    THEN increase_size_rebuilds(c)
    ELSE 0

check_deleted_elements_rebuilds(c) ==
    IF c.size_all_non_nullptr > allowed_deleted_elements * c.sz
    THEN decrease_size_rebuilds(c)
    ELSE 0

insert_rebuilds(c, item) ==
    check_density_rebuilds(c)
        + check_deleted_elements_rebuilds(check_density(c))

erase_rebuilds(c, key) ==
    LET hash == probe(c, key, hasher(key) % c.buffer_size, 0)
    IN IF hash # -1
       THEN check_deleted_elements_rebuilds(
                [c EXCEPT !.used[hash] = TRUE, !.sz = @ - 1])
       ELSE 0

size(c) == c.sz

empty(c) == c.sz = 0

\* clear that empties the table it has, without init()
clear_keeping_size(c) == rebuilt(c.buffer_size)

clear(c) == init

(***************************************************************************)
(* Iterators: a position and the vector it points into.                    *)
(***************************************************************************)
RECURSIVE go(_, _)
go(c, pos) ==
    IF pos < c.buffer_size /\ (c.is_nullptr[pos] \/ c.used[pos])
    THEN go(c, pos + 1)
    ELSE pos

iterator(pos_, c, ptr) == [pos |-> go(c, pos_), ptr |-> ptr]

increment(it, c) == [it EXCEPT !.pos = go(c, it.pos + 1)]

iterator_eq(it, oth) == it.pos = oth.pos /\ it.ptr = oth.ptr

dereference(it, c) == c.arr[it.pos]

begin(c, ptr) == iterator(0, c, ptr)

end(c, ptr) == iterator(c.buffer_size, c, ptr)

find(c, key, ptr) ==
    LET hash == probe(c, key, hasher(key) % c.buffer_size, 0)
    IN IF hash # -1 THEN iterator(hash, c, ptr) ELSE end(c, ptr)

\* at that does not test used[hash]
at_ignoring_used(c, key) ==
    LET hash == probe_ignoring_used(c, key, hasher(key) % c.buffer_size, 0)
    IN IF hash # -1
       THEN [thrown |-> FALSE, value |-> c.arr[hash][2]]
       ELSE [thrown |-> TRUE, value |-> DefaultValue]

\* at: the value, or thrown = std::out_of_range
at(c, key) ==
    LET hash == probe(c, key, hasher(key) % c.buffer_size, 0)
    IN IF hash # -1
       THEN [thrown |-> FALSE, value |-> c.arr[hash][2]]
       ELSE [thrown |-> TRUE, value |-> DefaultValue]

\* operator[]: the container afterwards and the slot the returned reference
\* designates
index(c, key) ==
    LET hash == probe(c, key, hasher(key) % c.buffer_size, 0)
    IN IF hash # -1
       THEN [map |-> c, ref |-> hash]
       ELSE LET c2 == insert(c, <<key, DefaultValue>>)
            IN [map |-> c2, ref |-> find(c2, key, "this").pos]

\* for (it = oth.begin(); it != oth.end(); ++it) insert(*it)
RECURSIVE insert_all(_, _, _)
insert_all(c, oth, it) ==
    IF ~iterator_eq(it, end(oth, "oth"))
    THEN insert_all(insert(c, dereference(it, oth)), oth, increment(it, oth))
    ELSE c

copy_construct(oth) == insert_all(init, oth, begin(oth, "oth"))

\* operator=; same_object is &oth == this
copy_assign(c, oth, same_object) ==
    IF ~same_object THEN insert_all(clear(c), oth, begin(oth, "oth")) ELSE c

\* for (it = begin(); it != end(); ++it): the positions the cursor stops at;
\* *it is the pair at that position
RECURSIVE walk(_, _)
walk(c, it) ==
    IF ~iterator_eq(it, end(c, "this"))
    THEN <<it.pos>> \o walk(c, increment(it, c))
    ELSE <<>>

(***************************************************************************)
(* The state machine.  h is the container; pre is the container as it was  *)
(* before the last call; last is that call, with what it returned: ref the *)
(* slot of a returned reference, thrown and val the outcome of at, items   *)
(* the pairs of a walk, copy the container a copy built, and reinsert_of   *)
(* the size before the erase when the call is the insert of the key that   *)
(* the call before it erased.  calls counts the mutating calls made, of    *)
(* which the caller makes at most limit.                                   *)
(***************************************************************************)
NoCall ==
    [op |-> "none", key |-> 0, val |-> FALSE, ref |-> -1, thrown |-> FALSE,
     items |-> <<>>, copy |-> init, reinsert_of |-> -1]

\* HashMap(): either class, default-constructed
Construct ==
    /\ variant \in Variants
    /\ h = init
    /\ pre = init
    /\ last = NoCall
    /\ calls = 0
    /\ first = <<>>
    /\ shadowed = FALSE
    /\ fifo = [pushed |-> 0, popped |-> 0]

Init == Construct /\ limit = MaxCalls

InitDeep == Construct /\ limit = MaxDeepCalls

Insert(k, v) ==
    /\ calls < limit
    /\ h' = insert(h, <<k, v>>)
    /\ pre' = h
    /\ last' = [NoCall EXCEPT !.op = "insert", !.key = k, !.val = v,
                  !.reinsert_of =
                      IF last.op = "erase" /\ last.key = k
                         /\ probe(pre, k, hasher(k) % pre.buffer_size, 0) # -1
                      THEN pre.sz
                      ELSE -1]
    /\ calls' = calls + 1
    /\ UNCHANGED <<variant, limit, first, shadowed, fifo>>

Erase(k) ==
    /\ calls < limit
    /\ h' = erase(h, k)
    /\ pre' = h
    /\ last' = [NoCall EXCEPT !.op = "erase", !.key = k]
    /\ calls' = calls + 1
    /\ UNCHANGED <<variant, limit, first, shadowed, fifo>>

Index(k) ==
    /\ calls < limit
    /\ h' = index(h, k).map
    /\ pre' = h
    /\ last' = [NoCall EXCEPT !.op = "index", !.key = k, !.ref = index(h, k).ref]
    /\ calls' = calls + 1
    /\ UNCHANGED <<variant, limit, first, shadowed, fifo>>

Clear ==
    /\ calls < limit
    /\ h' = clear(h)
    /\ pre' = h
    /\ last' = [NoCall EXCEPT !.op = "clear"]
    /\ calls' = calls + 1
    /\ UNCHANGED <<variant, limit, first, shadowed, fifo>>

At(k) ==
    /\ h' = h
    /\ pre' = h
    /\ last' = [NoCall EXCEPT !.op = "at", !.key = k,
                  !.thrown = at(h, k).thrown, !.val = at(h, k).value]
    /\ UNCHANGED <<variant, calls, limit, first, shadowed, fifo>>

Walk ==
    /\ h' = h
    /\ pre' = h
    /\ last' = [NoCall EXCEPT !.op = "walk", !.items = walk(h, begin(h, "this"))]
    /\ UNCHANGED <<variant, calls, limit, first, shadowed, fifo>>

CopyConstruct ==
    /\ h' = h
    /\ pre' = h
    /\ last' = [NoCall EXCEPT !.op = "copy_construct", !.copy = copy_construct(h)]
    /\ UNCHANGED <<variant, calls, limit, first, shadowed, fifo>>

\* other = h, where other is the container the call before built (a
\* default-constructed one if it built none)
CopyAssign ==
    /\ h' = h
    /\ pre' = h
    /\ last' = [NoCall EXCEPT !.op = "copy_assign",
                  !.copy = copy_assign(last.copy, h, FALSE)]
    /\ UNCHANGED <<variant, calls, limit, first, shadowed, fifo>>

\* h = h
SelfAssign ==
    /\ h' = copy_assign(h, h, TRUE)
    /\ pre' = h
    /\ last' = [NoCall EXCEPT !.op = "self_assign"]
    /\ UNCHANGED <<variant, calls, limit, first, shadowed, fifo>>

Next ==
    \/ \E k \in Keys, v \in Values : Insert(k, v)
    \/ \E k \in Keys : Erase(k)
    \/ \E k \in Keys : Index(k)
    \/ Clear
    \/ \E k \in Keys : At(k)
    \/ Walk
    \/ CopyConstruct
    \/ CopyAssign
    \/ SelfAssign

Spec == Init /\ [][Next]_vars

\* the same caller, with one more mutating call
SpecDeep == InitDeep /\ [][Next]_vars

(***************************************************************************)
(* The range constructor (and any insert-only use of a default-constructed *)
(* container): init(), then one insert call per pair of the sequence.      *)
(* first records, for every key of the sequence so far, the value of the   *)
(* first pair that has it; shadowed, that a later pair of the sequence had *)
(* a key of an earlier pair with another value.                            *)
(***************************************************************************)
RangeInsert(k, v) ==
    /\ h' = insert(h, <<k, v>>)
    /\ first' = IF k \in DOMAIN first THEN first ELSE (k :> v) @@ first
    /\ shadowed' = (shadowed \/ (k \in DOMAIN first /\ first[k] # v))
    /\ UNCHANGED <<variant, pre, last, calls, limit, fifo>>

NextRange == \E k \in RangeKeys, v \in Values : RangeInsert(k, v)

SpecRange == Init /\ [][NextRange]_vars

(***************************************************************************)
(* A caller that uses the container as a window over numbered entries: it  *)
(* inserts the keys 0, 1, 2, ... in this order and erases the oldest key   *)
(* it still holds.  fifo counts the keys inserted and the keys erased.     *)
(***************************************************************************)
Push ==
    /\ fifo.pushed < NumQueueKeys
    /\ h' = insert(h, <<fifo.pushed, DefaultValue>>)
    /\ pre' = h
    /\ last' = [NoCall EXCEPT !.op = "insert", !.key = fifo.pushed,
                              !.val = DefaultValue]
    /\ fifo' = [fifo EXCEPT !.pushed = @ + 1]
    /\ UNCHANGED <<variant, calls, limit, first, shadowed>>

Pop ==
    /\ fifo.popped < fifo.pushed
    /\ h' = erase(h, fifo.popped)
    /\ pre' = h
    /\ last' = [NoCall EXCEPT !.op = "erase", !.key = fifo.popped]
    /\ fifo' = [fifo EXCEPT !.popped = @ + 1]
    /\ UNCHANGED <<variant, calls, limit, first, shadowed>>

NextQueue == Push \/ Pop

SpecQueue == Init /\ [][NextQueue]_vars

(***************************************************************************)
(* What a caller observes of a container.                                  *)
(***************************************************************************)
\* find(key) != end()
present(c, key) == ~iterator_eq(find(c, key, "this"), end(c, "this"))

\* what find(key) yields: <<find(key)->second>>, or <<>> for end()
lookup(c, key) ==
    IF present(c, key) THEN <<dereference(find(c, key, "this"), c)[2]>> ELSE <<>>

holds_deleted(c, key) ==
    \E i \in 0..(c.buffer_size - 1) :
        ~c.is_nullptr[i] /\ c.used[i] /\ c.arr[i][1] = key

RECURSIVE power_of_two(_)
power_of_two(n) == n = 1 \/ (n > 1 /\ n % 2 = 0 /\ power_of_two(n \div 2))

(***************************************************************************)
(* C1.  After an insert-only sequence on a fresh container, find(k) yields *)
(* the value of the first pair with key k, for every key k of the          *)
(* sequence, and size() is the number of distinct keys of the sequence.    *)
(***************************************************************************)
C1_FirstPairWins ==
    /\ \A k \in DOMAIN first : lookup(h, k) = <<first[k]>>
    /\ size(h) = Cardinality(DOMAIN first)

\* the table has doubled, and a later pair had the key of an earlier one
C1_Witness ==
    /\ h.buffer_size = default_size * increasing_size
    /\ shadowed
    /\ Cardinality(DOMAIN first) = NumRangeKeys

(***************************************************************************)
(* C2.  insert(k, v') on a key k that find finds leaves find(k) and size() *)
(* as they were.                                                           *)
(***************************************************************************)
C2_IdempotentInsert ==
    (last.op = "insert" /\ present(pre, last.key))
        => /\ lookup(h, last.key) = lookup(pre, last.key)
           /\ size(h) = size(pre)

(***************************************************************************)
(* C3.  erase(k) on a key k that find finds: afterwards find(k) is end(),  *)
(* size() is one less, and every other key found before is found with the *)
(* same value.                                                             *)
(***************************************************************************)
C3_EraseRemoves ==
    (last.op = "erase" /\ present(pre, last.key))
        => /\ ~present(h, last.key)
           /\ size(h) = size(pre) - 1
           /\ \A j \in Keys \ {last.key} :
                  present(pre, j) => lookup(h, j) = lookup(pre, j)

(***************************************************************************)
(* C4.  size() is the number of distinct keys that find finds.             *)
(***************************************************************************)
C4_SizeConsistency == size(h) = Cardinality({k \in Keys : present(h, k)})

(***************************************************************************)
(* C5.  A walk from begin() to end() stops only at occupied slots, yields  *)
(* no key twice, and yields exactly the pairs (k, v) with find(k) yielding *)
(* v.                                                                      *)
(***************************************************************************)
C5_IterationCompleteness ==
    last.op = "walk"
        => /\ \A i \in DOMAIN last.items :
                  ~h.is_nullptr[last.items[i]] /\ ~h.used[last.items[i]]
           /\ \A i, j \in DOMAIN last.items :
                  i # j => h.arr[last.items[i]][1] # h.arr[last.items[j]][1]
           /\ {h.arr[last.items[i]] : i \in DOMAIN last.items}
                  = {<<k, lookup(h, k)[1]>> : k \in {j \in Keys : present(h, j)}}

(***************************************************************************)
(* C6.  As claimed: buffer_size is a power of two and at least 8.          *)
(***************************************************************************)
C6_CapacityAtLeastDefault ==
    power_of_two(h.buffer_size) /\ h.buffer_size >= default_size

(***************************************************************************)
(* C6, amended.  buffer_size is a power of two and at least 1: a shrink    *)
(* halves the table whatever its size, 8 is only the size of a new or      *)
(* cleared table.                                                          *)
(***************************************************************************)
C6_CapacityPowerOfTwo == power_of_two(h.buffer_size) /\ h.buffer_size >= 1

\* an erase has halved the table to a single slot
C6_Witness ==
    last.op = "erase" /\ pre.buffer_size = 2 /\ h.buffer_size = 1

(***************************************************************************)
(* C7.  erase(k); insert(k, v_new) on a key k that find finds, with size() *)
(* n before: afterwards find(k) yields v_new and size() is n.              *)
(***************************************************************************)
C7_EraseReinsert ==
    (last.op = "insert" /\ last.reinsert_of # -1)
        => /\ lookup(h, last.key) = <<last.val>>
           /\ size(h) = last.reinsert_of

(***************************************************************************)
(* C8.  at(k) throws exactly when find(k) is end(), returns the value find *)
(* yields otherwise, and leaves the container as it was.                   *)
(***************************************************************************)
C8_At ==
    last.op = "at"
        => /\ h = pre
           /\ last.thrown = ~present(pre, last.key)
           /\ present(pre, last.key) => <<last.val>> = lookup(pre, last.key)

\* at threw for a key that a deleted slot still holds
C8_Witness ==
    last.op = "at" /\ last.thrown /\ holds_deleted(h, last.key)

(***************************************************************************)
(* C9.  operator[](k): on a key find does not find, size() grows by one,   *)
(* find(k) yields the default value and the returned reference is to the   *)
(* value of the slot that now holds k; on a key find finds, the reference  *)
(* is to its value and size() is unchanged.                                *)
(***************************************************************************)
C9_Index ==
    last.op = "index"
        => /\ last.ref = find(h, last.key, "this").pos
           /\ present(h, last.key)
           /\ IF present(pre, last.key)
              THEN lookup(h, last.key) = lookup(pre, last.key)
                   /\ size(h) = size(pre)
              ELSE lookup(h, last.key) = <<DefaultValue>>
                   /\ size(h) = size(pre) + 1

(***************************************************************************)
(* C10.  A copy has the size of its source and find yields on it what it   *)
(* yields on the source; self-assignment changes nothing.                  *)
(***************************************************************************)
C10_Copy ==
    /\ last.op \in {"copy_construct", "copy_assign"}
           => /\ size(last.copy) = size(h)
              /\ \A k \in Keys : lookup(last.copy, k) = lookup(h, k)
    /\ last.op = "self_assign" => h = pre

\* slot states: Empty (is_nullptr), Tombstone (used), Occupied (neither)
Slots(c) == 0..(c.buffer_size - 1)
Empty(c, i) == c.is_nullptr[i]
Tombstone(c, i) == ~c.is_nullptr[i] /\ c.used[i]
Occupied(c, i) == ~c.is_nullptr[i] /\ ~c.used[i]

(***************************************************************************)
(* C11.  clear(), from any reachable state, also one whose capacity is not *)
(* 8, leaves capacity 8, every slot Empty, sz = size_all_non_nullptr = 0,  *)
(* size() = 0, empty() true and find(k) = end() for every key k.           *)
(***************************************************************************)
C11_Clear ==
    last.op = "clear"
        => /\ h.buffer_size = default_size
           /\ \A i \in Slots(h) : Empty(h, i)
           /\ h.sz = 0
           /\ h.size_all_non_nullptr = 0
           /\ size(h) = 0
           /\ empty(h)
           /\ \A k \in Keys : iterator_eq(find(h, k, "this"), end(h, "this"))

\* clear() of a shrunk table that holds a key and a deleted slot
C11_Witness ==
    /\ last.op = "clear"
    /\ pre.buffer_size # default_size
    /\ pre.sz > 0
    /\ pre.size_all_non_nullptr > pre.sz

(***************************************************************************)
(* C12.  erase(k) on a key k that find does not find changes nothing:      *)
(* capacity, the state and payload of every slot, sz and                   *)
(* size_all_non_nullptr are as before the call (no resize check runs).     *)
(***************************************************************************)
C12_EraseAbsent ==
    (last.op = "erase" /\ ~present(pre, last.key)) => h = pre

\* erase of an absent key that a deleted slot still holds, in a table with
\* a live key and in which the key's probe path passes a live slot
C12_Witness ==
    /\ last.op = "erase"
    /\ ~present(pre, last.key)
    /\ holds_deleted(pre, last.key)
    /\ pre.sz > 0
    /\ Occupied(pre, hasher(last.key) % pre.buffer_size)

(***************************************************************************)
(* C13.  insert(k, v) on a key k that find finds returns without mutation: *)
(* capacity, the state and payload of every slot, sz and                   *)
(* size_all_non_nullptr are as before the call.                            *)
(***************************************************************************)
C13_InsertPresent ==
    (last.op = "insert" /\ present(pre, last.key)) => h = pre

(***************************************************************************)
(* C14.  Every call of insert, erase, find, at, operator[] and clear       *)
(* terminates: in every reachable table, also one without an Empty slot,   *)
(* the body of the probe loop of find, at, operator[] and erase, and of    *)
(* the probe loop of insert, runs at most buffer_size times for every key, *)
(* and the recursion of insert through increase_size and decrease_size is  *)
(* finite: a call makes at most two rebuilds.                              *)
(***************************************************************************)
C14_Termination ==
    /\ \A k \in Keys \cup QueueKeys :
          /\ probe_steps(h, k, hasher(k) % h.buffer_size, 0) <= h.buffer_size
          /\ LET c2 == check_deleted_elements(check_density(h))
             IN insert_probe_steps(c2, k, hasher(k) % c2.buffer_size, 0, FALSE)
                    <= c2.buffer_size
    /\ last.op = "insert" => insert_rebuilds(pre, <<last.key, last.val>>) <= 2
    /\ last.op = "index" => insert_rebuilds(pre, <<last.key, DefaultValue>>) <= 2
    /\ last.op = "erase" => erase_rebuilds(pre, last.key) <= 2

\* an insert into a table without an Empty slot, whose probe loop went
\* through every slot; find of an absent key does so in the table it left
C14_Witness ==
    /\ last.op = "insert"
    /\ \A i \in Slots(pre) : ~Empty(pre, i)
    /\ h.buffer_size = pre.buffer_size
    /\ insert_probe_steps(pre, last.key, hasher(last.key) % pre.buffer_size,
                          0, FALSE) = pre.buffer_size
    /\ \E k \in QueueKeys :
          /\ ~present(h, k)
          /\ probe_steps(h, k, hasher(k) % h.buffer_size, 0) = h.buffer_size

(***************************************************************************)
(* C15.  Key uniqueness: in every state reachable by insert and erase      *)
(* calls no two Occupied slots hold the same key.                          *)
(***************************************************************************)
C15_KeyUniqueness ==
    \A i, j \in Slots(h) :
        (Occupied(h, i) /\ Occupied(h, j) /\ h.arr[i][1] = h.arr[j][1])
            => i = j

\* the slots from the home slot of key up to slot j, j excluded
PathBefore(c, key, j) ==
    LET home == hasher(key) % c.buffer_size
        dist == (j + c.buffer_size - home) % c.buffer_size
    IN {(home + d) % c.buffer_size : d \in 0..(dist - 1)}

(***************************************************************************)
(* C16.  Probe reachability: for every Occupied slot j holding key k, no   *)
(* slot on the probe path from hash(k) mod buffer_size up to j, j          *)
(* excluded, is Empty.                                                     *)
(***************************************************************************)
C16_ProbeReachability ==
    \A j \in Slots(h) :
        Occupied(h, j)
            => \A i \in PathBefore(h, h.arr[j][1], j) : ~Empty(h, i)

\* after an erase, a key displaced past the last slot sits behind a deleted
\* slot of its probe path
C16_Witness ==
    /\ last.op = "erase"
    /\ \E j \in Slots(h) :
          /\ Occupied(h, j)
          /\ j < hasher(h.arr[j][1]) % h.buffer_size
          /\ \E i \in PathBefore(h, h.arr[j][1], j) : Tombstone(h, i)

(***************************************************************************)
(* C17.  Counter consistency: sz is the number of Occupied slots,          *)
(* size_all_non_nullptr is the number of Occupied and Tombstone slots, and *)
(* sz <= size_all_non_nullptr <= buffer_size.                              *)
(***************************************************************************)
C17_CounterConsistency ==
    /\ h.sz = Cardinality({i \in Slots(h) : Occupied(h, i)})
    /\ h.size_all_non_nullptr
           = Cardinality({i \in Slots(h) : Occupied(h, i) \/ Tombstone(h, i)})
    /\ h.sz <= h.size_all_non_nullptr
    /\ h.size_all_non_nullptr <= h.buffer_size

\* an insert has taken a deleted slot: sz grew, size_all_non_nullptr did not
C17_Witness ==
    /\ last.op = "insert"
    /\ h.buffer_size = pre.buffer_size
    /\ h.sz = pre.sz + 1
    /\ h.size_all_non_nullptr = pre.size_all_non_nullptr
    /\ h.sz >= 2

\* the d-th slot of the probe path of key
PathSlot(c, key, d) == ((hasher(key) % c.buffer_size) + d) % c.buffer_size

\* the number of slots of the probe path of key before its first Empty slot
\* (buffer_size when no slot is Empty)
EmptyDist(c, key) ==
    LET D == {d \in Slots(c) : Empty(c, PathSlot(c, key, d))}
    IN IF D = {} THEN c.buffer_size ELSE CHOOSE d \in D : \A e \in D : d <= e

\* the number of slots of the probe path of key before its first Tombstone
\* slot, when that slot comes before every Empty slot; -1 when none does
TombDist(c, key) ==
    LET D == {d \in 0..(EmptyDist(c, key) - 1) :
                 Tombstone(c, PathSlot(c, key, d))}
    IN IF D = {} THEN -1 ELSE CHOOSE d \in D : \A e \in D : d <= e

(***************************************************************************)
(* C18.  Tombstone reuse: insert(k, v) with k not found and no rebuild.    *)
(* When the probe path of k meets a Tombstone slot before any Empty slot,  *)
(* the pair is stored in the first Tombstone slot of the path, sz grows by *)
(* one and size_all_non_nullptr stays; when it meets an Empty slot with no *)
(* Tombstone slot before it, the pair is stored in that Empty slot and     *)
(* both counters grow by one.                                              *)
(***************************************************************************)
C18_TombstoneReuse ==
    (/\ last.op = "insert"
     /\ ~present(pre, last.key)
     /\ insert_rebuilds(pre, <<last.key, last.val>>) = 0)
        => LET t == TombDist(pre, last.key)
               e == EmptyDist(pre, last.key)
               ts == PathSlot(pre, last.key, t)
               es == PathSlot(pre, last.key, e)
           IN /\ t # -1
                   => /\ Occupied(h, ts)
                      /\ h.arr[ts] = <<last.key, last.val>>
                      /\ h.sz = pre.sz + 1
                      /\ h.size_all_non_nullptr = pre.size_all_non_nullptr
              /\ (t = -1 /\ e < pre.buffer_size)
                   => /\ Occupied(h, es)
                      /\ h.arr[es] = <<last.key, last.val>>
                      /\ h.sz = pre.sz + 1
                      /\ h.size_all_non_nullptr
                             = pre.size_all_non_nullptr + 1

\* an absent key is inserted, without a rebuild, into a table where its
\* probe path passes a live slot, then a deleted slot, then an empty one
C18_Witness ==
    /\ last.op = "insert"
    /\ ~present(pre, last.key)
    /\ insert_rebuilds(pre, <<last.key, last.val>>) = 0
    /\ TombDist(pre, last.key) > 0
    /\ EmptyDist(pre, last.key) < pre.buffer_size
    /\ Occupied(h, PathSlot(pre, last.key, TombDist(pre, last.key)))

(***************************************************************************)
(* C19.  Growth policy.  An insert call that starts with                   *)
(* sz + 1 > 0.75 * buffer_size ends with buffer_size doubled, every pair   *)
(* that was live before still found with its value, and no Tombstone slot; *)
(* an insert call that starts with sz + 1 <= 0.75 * buffer_size does not   *)
(* increase buffer_size.  After every insert sz <= 0.75 * buffer_size.     *)
(***************************************************************************)
C19_GrowthPolicy ==
    last.op = "insert"
        => /\ 4 * (pre.sz + 1) > 3 * pre.buffer_size
                => /\ h.buffer_size = 2 * pre.buffer_size
                   /\ \A i \in Slots(pre) :
                         Occupied(pre, i)
                             => lookup(h, pre.arr[i][1]) = <<pre.arr[i][2]>>
                   /\ \A i \in Slots(h) : ~Tombstone(h, i)
           /\ 4 * (pre.sz + 1) <= 3 * pre.buffer_size
                => h.buffer_size <= pre.buffer_size
           /\ 4 * h.sz <= 3 * h.buffer_size

(***************************************************************************)
(* C20.  No double rebuild: one insert or erase call makes at most one     *)
(* table rebuild; a shrink started by erase makes no growth inside it.     *)
(***************************************************************************)
C20_NoDoubleRebuild ==
    /\ last.op = "insert" => insert_rebuilds(pre, <<last.key, last.val>>) <= 1
    /\ last.op = "erase" => erase_rebuilds(pre, last.key) <= 1

\* the table in which insert looks for a slot: after check_density() and
\* check_deleted_elements()
probed(c) == check_deleted_elements(check_density(c))

(***************************************************************************)
(* C21.  A free slot is always reachable: in every reachable state at      *)
(* least one slot is not Occupied (sz < buffer_size), also in the table in *)
(* which an insert looks for its slot, so the probe loop of insert never   *)
(* leaves through its guard i < buffer_size with every slot Occupied, and  *)
(* insert never overwrites an Occupied slot: every slot Occupied in that   *)
(* table is Occupied with the same pair after the call.                    *)
(***************************************************************************)
C21_FreeSlot ==
    /\ h.sz < h.buffer_size
    /\ \E i \in Slots(h) : ~Occupied(h, i)
    /\ \E i \in Slots(probed(h)) : ~Occupied(probed(h), i)
    /\ last.op = "insert"
          => \A i \in Slots(probed(pre)) :
                Occupied(probed(pre), i)
                    => /\ Occupied(h, i)
                       /\ h.arr[i] = probed(pre).arr[i]

\* an insert without a rebuild into a table without an Empty slot: the
\* probe loop left through its guard and the pair took a Tombstone slot
C21_Witness ==
    /\ last.op = "insert"
    /\ variant = "pointer_array"
    /\ probed(pre) = pre
    /\ \A i \in Slots(pre) : ~Empty(pre, i)
    /\ insert_probe_steps(pre, last.key, hasher(last.key) % pre.buffer_size,
                          0, FALSE) = pre.buffer_size
    /\ \E i \in Slots(pre) :
          /\ Tombstone(pre, i)
          /\ Occupied(h, i)
          /\ h.arr[i] = <<last.key, last.val>>

(***************************************************************************)
(* C22.  Tombstone bound: after every completed insert, erase, operator[]  *)
(* or clear call, size_all_non_nullptr <= 2 * sz: the Tombstone slots are  *)
(* never more than the Occupied slots.                                     *)
(***************************************************************************)
C22_TombstoneBound ==
    /\ h.size_all_non_nullptr <= 2 * h.sz
    /\ Cardinality({i \in Slots(h) : Tombstone(h, i)})
           <= Cardinality({i \in Slots(h) : Occupied(h, i)})

\* an erase that did not shrink left as many Tombstone as Occupied slots
C22_Witness ==
    /\ last.op = "erase"
    /\ present(pre, last.key)
    /\ h.buffer_size = pre.buffer_size
    /\ h.sz >= 1
    /\ h.size_all_non_nullptr = 2 * h.sz

(***************************************************************************)
(* C23.  Insert never shrinks: an insert call, and an operator[] call on a *)
(* key that find does not find, ends with buffer_size at least what it was *)
(* at the start; the check_deleted_elements() at the start of insert does  *)
(* not call decrease_size; buffer_size decreases only in erase and clear.  *)
(***************************************************************************)
C23_InsertNeverShrinks ==
    /\ (\/ last.op = "insert"
        \/ (last.op = "index" /\ ~present(pre, last.key)))
          => /\ h.buffer_size >= pre.buffer_size
             /\ check_deleted_elements_rebuilds(check_density(pre)) = 0
    /\ h.buffer_size < pre.buffer_size => last.op \in {"erase", "clear"}

\* an insert of a new key into a table with as many Tombstone as Occupied
\* slots, where one deleted slot more would make the check shrink
C23_Witness ==
    /\ last.op = "insert"
    /\ ~present(pre, last.key)
    /\ pre.sz >= 1
    /\ pre.size_all_non_nullptr = allowed_deleted_elements * pre.sz
    /\ h.buffer_size = pre.buffer_size
    /\ h.sz = pre.sz + 1

(***************************************************************************)
(* C24.  Capacity never reaches zero: after any sequence of insert, erase, *)
(* operator[] and clear calls, also one that shrinks the table step by     *)
(* step, buffer_size >= 1, and hasher(key) % buffer_size is an index of    *)
(* arr, used and is_nullptr for every key.                                 *)
(***************************************************************************)
C24_CapacityNeverZero ==
    /\ h.buffer_size >= 1
    /\ \A k \in Keys \cup QueueKeys :
          /\ hasher(k) % h.buffer_size \in DOMAIN h.arr
          /\ hasher(k) % h.buffer_size \in DOMAIN h.used
          /\ hasher(k) % h.buffer_size \in DOMAIN h.is_nullptr

\* an insert into the table of a single slot, which erase calls had halved
\* three times
C24_Witness ==
    /\ last.op = "insert"
    /\ pre.buffer_size = 1
    /\ h.buffer_size = increasing_size
    /\ h.sz = 1

====
